---- MODULE Spec2Model ----
(***************************************************************************)
(* Model of embed_server.py: a Flask process holding one sentence-         *)
(* embedding model and four request handlers (health, embed, batch_embed,  *)
(* similarity).                                                            *)
(*                                                                         *)
(* Python values are modelled as tagged records:                           *)
(*   None  [t |-> "null"]          bool  [t |-> "bool", b |-> TRUE]        *)
(*   int   [t |-> "num", n |-> 5]  str   [t |-> "str", s |-> <<chunks>>]   *)
(*   list  [t |-> "list", items |-> <<values>>]                            *)
(*   dict  [t |-> "obj", fields |-> function from keys to values]          *)
(* A string is a sequence of chunks (a chunk is an indivisible piece of    *)
(* text), so that the substring test of `in` and the concatenation of      *)
(* f-strings are computed rather than assumed.                             *)
(*                                                                         *)
(* Each handler runs to completion in one action.  The handlers share only *)
(* the module-level name `model`; every other name is local to one call.   *)
(***************************************************************************)
EXTENDS Integers, Sequences, FiniteSets, TLC

VARIABLES
    model,      \* the module-level model handle (line 17)
    flask,      \* which get_json behaviour the installed Flask/Werkzeug has
    request,    \* the request most recently handled
    fault,      \* which encode call of that request the library failed on (0: none)
    response,   \* the response returned for it
    calls,      \* the arguments of the model.encode calls made for it, in order
    exc,        \* the exception the handler's except clause caught, if any
    memo        \* history variable: one earlier request with its response

vars == <<model, flask, request, fault, response, calls, exc, memo>>

\* Longest list of strings sent as `texts`.
MaxTexts == 2

(***************************************************************************)
(* Python values                                                           *)
(***************************************************************************)
JNull == [t |-> "null"]
JBool(b) == [t |-> "bool", b |-> b]
JNum(n) == [t |-> "num", n |-> n]
JStr(s) == [t |-> "str", s |-> s]
JList(items) == [t |-> "list", items |-> items]
JObj(fields) == [t |-> "obj", fields |-> fields]

\* The keys the handlers look up.  'text' is a substring of the other three.
K_text == <<"text">>
K_texts == <<"text", "s">>
K_text1 == <<"text", "1">>
K_text2 == <<"text", "2">>
K_other == <<"other">>

Hello == JStr(<<"hello">>)
World == JStr(<<"world">>)
Hi == JStr(<<"hi">>)

\* bool(x): the truth value `not data` tests.
Truthy(x) ==
    CASE x.t = "null" -> FALSE
      [] x.t = "bool" -> x.b
      [] x.t = "num" -> x.n # 0
      [] x.t = "str" -> x.s # <<>>
      [] x.t = "list" -> x.items # <<>>
      [] x.t = "obj" -> DOMAIN x.fields # {}

\* Whether `key in x` evaluates at all: None, bool and int are not iterable.
SupportsIn(x) == x.t \in {"str", "list", "obj"}

IsSubstring(k, s) ==
    \E i \in 0..(Len(s) - Len(k)) : SubSeq(s, i + 1, i + Len(k)) = k

\* `key in x` for the container types: substring of a str, element of a list,
\* key of a dict.
In(k, x) ==
    CASE x.t = "str" -> IsSubstring(k, x.s)
      [] x.t = "list" -> \E i \in 1..Len(x.items) :
                            x.items[i].t = "str" /\ x.items[i].s = k
      [] x.t = "obj" -> k \in DOMAIN x.fields

\* Whether x['key'] evaluates: a str key indexes a dict only.
SupportsStrIndex(x) == x.t = "obj"

\* Whether x[:50] evaluates (the dict case, whose error depends on the Python
\* version, is not sent as `text`).
SupportsSlice(x) == x.t \in {"str", "list"}

\* str(e) of the TypeErrors the three expressions above raise.
NotIterable == <<"argument of type is not iterable">>
BadIndex == <<"indices must be integers">>
NotSubscriptable == <<"object is not subscriptable">>

(***************************************************************************)
(* The library: SentenceTransformer.encode and sklearn's cosine_similarity *)
(***************************************************************************)
ModelName == "all-MiniLM-L6-v2"

\* The embedding of one text under model handle m: a fixed vector per text,
\* of norm 5 so that norms are whole numbers.  Another handle embeds
\* differently.
Vec(m, s) ==
    LET v == CASE s = <<"hello">> -> <<3, 4>>
               [] s = <<"world">> -> <<4, 3>>
               [] s = <<>> -> <<5, 0>>
               [] OTHER -> <<0, 5>>
    IN IF m = ModelName THEN v ELSE <<v[2], -v[1]>>

AllStr(x) == x.t = "list" /\ \A i \in 1..Len(x.items) : x.items[i].t = "str"

LibFault == <<"CUDA out of memory">>
LibBadInput == <<"text input must be of type str">>

\* model.encode(x): a 1-d array for a str, a 2-d array with one row per item
\* for a list of str (an empty list gives an empty 1-d array), an exception
\* for anything else or when the library fails (failed).
encode(m, x, failed) ==
    IF failed THEN [raised |-> TRUE, desc |-> LibFault]
    ELSE IF x.t = "str"
        THEN [raised |-> FALSE, value |-> [ndim |-> 1, rows |-> <<Vec(m, x.s)>>]]
    ELSE IF AllStr(x) /\ x.items = <<>>
        THEN [raised |-> FALSE, value |-> [ndim |-> 1, rows |-> << <<>> >>]]
    ELSE IF AllStr(x)
        THEN [raised |-> FALSE,
              value |-> [ndim |-> 2,
                         rows |-> [i \in 1..Len(x.items) |-> Vec(m, x.items[i].s)]]]
    ELSE [raised |-> TRUE, desc |-> LibBadInput]

NumList(v) == [i \in 1..Len(v) |-> JNum(v[i])]

\* ndarray.tolist(): a list of numbers for a 1-d array, a list of such lists
\* for a 2-d array.
tolist(a) ==
    IF a.ndim = 1 THEN JList(NumList(a.rows[1]))
    ELSE JList([i \in 1..Len(a.rows) |-> JList(NumList(a.rows[i]))])

Dot(a, b) == a[1] * b[1] + a[2] * b[2]

ISqrt(n) == CHOOSE r \in 0..n : r * r <= n /\ n < (r + 1) * (r + 1)

CosineDimError == <<"Found array with dim 3">>

\* cosine_similarity([e1], [e2])[0][0] in hundredths: both arguments must be
\* 2-d, so e1 and e2 must be 1-d; a zero vector is normalised by 1.
cosine_similarity(e1, e2) ==
    IF e1.ndim # 1 \/ e2.ndim # 1 THEN [raised |-> TRUE, desc |-> CosineDimError]
    ELSE LET a == e1.rows[1]
             b == e2.rows[1]
             na == IF Dot(a, a) = 0 THEN 1 ELSE ISqrt(Dot(a, a))
             nb == IF Dot(b, b) = 0 THEN 1 ELSE ISqrt(Dot(b, b))
         IN [raised |-> FALSE, value |-> (Dot(a, b) * 100) \div (na * nb)]

(***************************************************************************)
(* Flask: request.get_json() and the responses                             *)
(***************************************************************************)
\* The request bodies get_json distinguishes: a JSON content type with an
\* undecodable (or empty) body, a non-JSON content type, a decoded value.
Malformed == [raw |-> "malformed"]
NoJson == [raw |-> "nojson"]
Json(v) == [raw |-> "json", value |-> v]

\* The get_json behaviours of the Flask/Werkzeug releases: before 2.1 a
\* non-JSON content type gives None, 2.1 and 2.2 raise BadRequest, 2.3 and
\* later raise UnsupportedMediaType.  An undecodable body raises BadRequest
\* in all of them.
FlaskVersions == {"legacy", "2.1", "2.3"}

HttpBadRequest == <<"400 Bad Request">>
HttpUnsupported == <<"415 Unsupported Media Type">>

get_json(body, fl) ==
    CASE body.raw = "malformed" -> [raised |-> TRUE, desc |-> HttpBadRequest]
      [] body.raw = "nojson" /\ fl = "legacy" -> [raised |-> FALSE, value |-> JNull]
      [] body.raw = "nojson" /\ fl = "2.1" -> [raised |-> TRUE, desc |-> HttpBadRequest]
      [] body.raw = "nojson" /\ fl = "2.3" -> [raised |-> TRUE, desc |-> HttpUnsupported]
      [] body.raw = "json" -> [raised |-> FALSE, value |-> body.value]

NoExc == [at |-> "none", desc |-> <<>>]

\* return jsonify(payload): status 200.
Ok(payload, made) ==
    [response |-> [status |-> 200, body |-> payload], calls |-> made, exc |-> NoExc]

\* return jsonify({'error': message}), 400
Invalid(message) ==
    [response |-> [status |-> 400, body |-> [error |-> message]],
     calls |-> <<>>, exc |-> NoExc]

\* Except with str(e) left out of the message.
Except_without_description(prefix, at, desc, made) ==
    [response |-> [status |-> 500, body |-> [error |-> prefix]],
     calls |-> made, exc |-> [at |-> at, desc |-> desc]]

\* except Exception as e: return jsonify({'error': f'{prefix}{str(e)}'}), 500
\* (at: the statement of the try block that raised; made: the encode calls
\* made before it was caught).
Except(prefix, at, desc, made) ==
    [response |-> [status |-> 500, body |-> [error |-> prefix \o desc]],
     calls |-> made, exc |-> [at |-> at, desc |-> desc]]

EmbedInvalid == <<"Invalid input, ", "text", " field is required">>
EmbedFailed == <<"Failed to generate embedding: ">>
BatchInvalid == <<"Invalid input, ", "text", "s", " field is required">>
BatchNotList == <<"text", "s", " must be a list">>
BatchFailed == <<"Failed to generate embeddings: ">>
SimInvalid == <<"Invalid input, ", "text", "1", " and ", "text", "2", " fields are required">>
SimFailed == <<"Failed to calculate similarity: ">>

(***************************************************************************)
(* The handlers (m: the value of `model`, fl: the Flask behaviour, f: the  *)
(* encode call the library fails on, 0 for none)                           *)
(***************************************************************************)
HealthPayload == [status |-> "healthy", model |-> "all-MiniLM-L6-v2"]

\* health reporting on the request answered before it.
health_degraded ==
    Ok([status |-> IF response.status = 500 THEN "degraded" ELSE "healthy",
        model |-> "all-MiniLM-L6-v2"], <<>>)

health == Ok(HealthPayload, <<>>)

embed(body, m, fl, f) ==
    LET gj == get_json(body, fl) IN
    IF gj.raised THEN Except(EmbedFailed, "get_json", gj.desc, <<>>)
    ELSE LET data == gj.value IN
    IF ~Truthy(data) THEN Invalid(EmbedInvalid)
    ELSE IF ~SupportsIn(data) THEN Except(EmbedFailed, "in", NotIterable, <<>>)
    ELSE IF ~In(K_text, data) THEN Invalid(EmbedInvalid)
    ELSE IF ~SupportsStrIndex(data) THEN Except(EmbedFailed, "index", BadIndex, <<>>)
    ELSE LET text == data.fields[K_text] IN
    IF ~SupportsSlice(text) THEN Except(EmbedFailed, "slice", NotSubscriptable, <<>>)
    ELSE LET e == encode(m, text, f = 1) IN
    IF e.raised THEN Except(EmbedFailed, "encode", e.desc, <<text>>)
    ELSE Ok([embedding |-> tolist(e.value)], <<text>>)

Reverse(q) == [i \in 1..Len(q) |-> q[Len(q) + 1 - i]]

\* batch_embed returning the embeddings in reverse order.
batch_embed_reversed(body, m, fl, f) ==
    LET gj == get_json(body, fl) IN
    IF gj.raised THEN Except(BatchFailed, "get_json", gj.desc, <<>>)
    ELSE LET data == gj.value IN
    IF ~Truthy(data) THEN Invalid(BatchInvalid)
    ELSE IF ~SupportsIn(data) THEN Except(BatchFailed, "in", NotIterable, <<>>)
    ELSE IF ~In(K_texts, data) THEN Invalid(BatchInvalid)
    ELSE IF ~SupportsStrIndex(data) THEN Except(BatchFailed, "index", BadIndex, <<>>)
    ELSE LET texts == data.fields[K_texts] IN
    IF texts.t # "list" THEN Invalid(BatchNotList)
    ELSE LET e == encode(m, texts, f = 1) IN
    IF e.raised THEN Except(BatchFailed, "encode", e.desc, <<texts>>)
    ELSE Ok([embeddings |-> JList(Reverse(tolist(e.value).items))], <<texts>>)

batch_embed(body, m, fl, f) ==
    LET gj == get_json(body, fl) IN
    IF gj.raised THEN Except(BatchFailed, "get_json", gj.desc, <<>>)
    ELSE LET data == gj.value IN
    IF ~Truthy(data) THEN Invalid(BatchInvalid)
    ELSE IF ~SupportsIn(data) THEN Except(BatchFailed, "in", NotIterable, <<>>)
    ELSE IF ~In(K_texts, data) THEN Invalid(BatchInvalid)
    ELSE IF ~SupportsStrIndex(data) THEN Except(BatchFailed, "index", BadIndex, <<>>)
    ELSE LET texts == data.fields[K_texts] IN
    IF texts.t # "list" THEN Invalid(BatchNotList)
    ELSE LET e == encode(m, texts, f = 1) IN
    IF e.raised THEN Except(BatchFailed, "encode", e.desc, <<texts>>)
    ELSE Ok([embeddings |-> tolist(e.value)], <<texts>>)

\* similarity encoding text2 before text1.
similarity_text2_first(body, m, fl, f) ==
    LET gj == get_json(body, fl) IN
    IF gj.raised THEN Except(SimFailed, "get_json", gj.desc, <<>>)
    ELSE LET data == gj.value IN
    IF ~Truthy(data) THEN Invalid(SimInvalid)
    ELSE IF ~SupportsIn(data) THEN Except(SimFailed, "in", NotIterable, <<>>)
    ELSE IF ~In(K_text1, data) \/ ~In(K_text2, data) THEN Invalid(SimInvalid)
    ELSE IF ~SupportsStrIndex(data) THEN Except(SimFailed, "index", BadIndex, <<>>)
    ELSE LET text1 == data.fields[K_text1]
             text2 == data.fields[K_text2]
             e2 == encode(m, text2, f = 1) IN
    IF e2.raised THEN Except(SimFailed, "encode", e2.desc, <<text2>>)
    ELSE LET e1 == encode(m, text1, f = 2) IN
    IF e1.raised THEN Except(SimFailed, "encode", e1.desc, <<text2, text1>>)
    ELSE LET c == cosine_similarity(e1.value, e2.value) IN
    IF c.raised THEN Except(SimFailed, "cosine", c.desc, <<text2, text1>>)
    ELSE Ok([similarity |-> c.value], <<text2, text1>>)

similarity(body, m, fl, f) ==
    LET gj == get_json(body, fl) IN
    IF gj.raised THEN Except(SimFailed, "get_json", gj.desc, <<>>)
    ELSE LET data == gj.value IN
    IF ~Truthy(data) THEN Invalid(SimInvalid)
    ELSE IF ~SupportsIn(data) THEN Except(SimFailed, "in", NotIterable, <<>>)
    ELSE IF ~In(K_text1, data) \/ ~In(K_text2, data) THEN Invalid(SimInvalid)
    ELSE IF ~SupportsStrIndex(data) THEN Except(SimFailed, "index", BadIndex, <<>>)
    ELSE LET text1 == data.fields[K_text1]
             text2 == data.fields[K_text2]
             e1 == encode(m, text1, f = 1) IN
    IF e1.raised THEN Except(SimFailed, "encode", e1.desc, <<text1>>)
    ELSE LET e2 == encode(m, text2, f = 2) IN
    IF e2.raised THEN Except(SimFailed, "encode", e2.desc, <<text1, text2>>)
    ELSE LET c == cosine_similarity(e1.value, e2.value) IN
    IF c.raised THEN Except(SimFailed, "cosine", c.desc, <<text1, text2>>)
    ELSE Ok([similarity |-> c.value], <<text1, text2>>)

(***************************************************************************)
(* The requests sent                                                       *)
(***************************************************************************)
Texts == {Hello, World}

\* The lists of at most MaxTexts texts.
TextLists == UNION {[1..n -> Texts] : n \in 0..MaxTexts}

Obj1(k, v) == JObj(k :> v)
Obj2(k1, v1, k2, v2) == JObj((k1 :> v1) @@ (k2 :> v2))

\* Bodies that are not a JSON object.
EmbedOddBodies ==
    {Malformed, NoJson} \cup
    {Json(v) : v \in {JNull, JNum(0), JNum(5), JBool(TRUE), JStr(<<>>), Hi,
                      JStr(<<"a ", "text", " b">>),
                      JList(<<>>), JList(<<Hi>>), JList(<<JStr(K_text)>>)}}

EmbedBodies ==
    EmbedOddBodies \cup
    {Json(v) : v \in {JObj(<<>>), Obj1(K_other, Hi)}} \cup
    {Json(Obj1(K_text, v)) : v \in {JNull, JNum(5), Hello, World, JStr(<<>>),
                                    JList(<<Hello>>)}}

BatchOddBodies ==
    {Malformed, NoJson} \cup
    {Json(v) : v \in {JNull, JNum(5), JStr(K_texts), JList(<<>>),
                      JList(<<JStr(K_texts)>>)}}

BatchBodies ==
    BatchOddBodies \cup
    {Json(v) : v \in {JObj(<<>>), Obj1(K_other, Hi), Obj1(K_text, Hello)}} \cup
    {Json(Obj1(K_texts, v)) : v \in {JNull, JNum(5), JBool(TRUE), Hello, JObj(<<>>),
                                     JList(<<Hello, JNum(5)>>)}} \cup
    {Json(Obj2(K_texts, Hello, K_other, JList(<<Hi>>)))} \cup
    {Json(Obj1(K_texts, JList(l))) : l \in TextLists}

SimOddBodies ==
    {Malformed, NoJson} \cup
    {Json(v) : v \in {JNull, JNum(5), JStr(K_text1 \o K_text2),
                      JList(<<JStr(K_text1)>>),
                      JList(<<JStr(K_text1), JStr(K_text2)>>)}}

SimBodies ==
    SimOddBodies \cup
    {Json(v) : v \in {JObj(<<>>), Obj1(K_other, Hi), Obj1(K_text1, Hello),
                      Obj1(K_text2, Hello)}} \cup
    {Json(Obj2(K_text1, a, K_text2, b)) : a, b \in Texts} \cup
    {Json(Obj2(K_text1, JNum(5), K_text2, Hello)),
     Json(Obj2(K_text1, Hello, K_text2, JNum(5))),
     Json(Obj2(K_text1, JList(<<Hello>>), K_text2, JList(<<Hello>>))),
     Json(Obj2(K_text1, JStr(<<>>), K_text2, JStr(<<>>)))}

(***************************************************************************)
(* The process                                                             *)
(***************************************************************************)
NoRequest == [ep |-> "none", body |-> NoJson]
NoResponse == [status |-> 0, body |-> [none |-> TRUE]]

\* model = SentenceTransformer('all-MiniLM-L6-v2'), then the server starts.
Init ==
    /\ model = ModelName
    /\ flask \in FlaskVersions
    /\ request = NoRequest
    /\ fault = 0
    /\ response = NoResponse
    /\ calls = <<>>
    /\ exc = NoExc
    /\ memo = [request |-> NoRequest, fault |-> 0, response |-> NoResponse]

\* One request answered: r is what the handler returned.  The history
\* variable keeps at most one earlier request.
Answered(ep, body, f, r) ==
    /\ request' = [ep |-> ep, body |-> body]
    /\ fault' = f
    /\ response' = r.response
    /\ calls' = r.calls
    /\ exc' = r.exc
    /\ memo' \in IF memo.request = NoRequest /\ request # NoRequest
                 THEN {memo, [request |-> request, fault |-> fault,
                              response |-> response]}
                 ELSE {memo}

\* GET /health
Health ==
    /\ Answered("health", NoJson, 0, health)
    /\ UNCHANGED <<model, flask>>

\* Embed loading another model into the module-level name.
Embed_reloading_model ==
    \E body \in EmbedBodies, f \in 0..1 :
      \E r \in {embed(body, model, flask, f)} :
        /\ Len(r.calls) >= f
        /\ Answered("embed", body, f, r)
        /\ model' = "paraphrase-MiniLM-L3-v2"
        /\ UNCHANGED flask

\* POST /embed.  The library can fail only in a call that is made.
Embed ==
    \E body \in EmbedBodies, f \in 0..1 :
      \E r \in {embed(body, model, flask, f)} :
        /\ Len(r.calls) >= f
        /\ Answered("embed", body, f, r)
        /\ UNCHANGED <<model, flask>>

\* POST /batch_embed
BatchEmbed ==
    \E body \in BatchBodies, f \in 0..1 :
      \E r \in {batch_embed(body, model, flask, f)} :
        /\ Len(r.calls) >= f
        /\ Answered("batch_embed", body, f, r)
        /\ UNCHANGED <<model, flask>>

\* POST /similarity
Similarity ==
    \E body \in SimBodies, f \in 0..2 :
      \E r \in {similarity(body, model, flask, f)} :
        /\ Len(r.calls) >= f
        /\ Answered("similarity", body, f, r)
        /\ UNCHANGED <<model, flask>>

Next == Health \/ Embed \/ BatchEmbed \/ Similarity

Spec == Init /\ [][Next]_vars

(***************************************************************************)
(* Properties                                                              *)
(***************************************************************************)
IsPost == request.ep \in {"embed", "batch_embed", "similarity"}

\* The body of the last request is a JSON object with the key k.
Supplies(k) ==
    /\ request.body.raw = "json"
    /\ request.body.value.t = "obj"
    /\ k \in DOMAIN request.body.value.fields

Field(k) == request.body.value.fields[k]

IsError(r) == DOMAIN r.body = {"error"}

\* C1: a POST /embed request whose body supplies no `text` field (no body,
\* an object without the key, or a JSON value that is not an object) is
\* answered 400 with an error payload.
C1_MissingTextIs400 ==
    (request.ep = "embed" /\ ~Supplies(K_text))
        => (response.status = 400 /\ IsError(response))

\* C2: a POST /batch_embed request whose body has no `texts` field, or whose
\* `texts` is not a list, is answered 400.
C2_NonListTextsIs400 ==
    (request.ep = "batch_embed"
        /\ (~Supplies(K_texts) \/ Field(K_texts).t # "list"))
        => response.status = 400

\* C3: a POST /batch_embed request answered 200 returns as many embeddings as
\* it sent texts, and the i-th is the embedding of the i-th text.
C3_BatchOrderPreserved ==
    (request.ep = "batch_embed" /\ response.status = 200)
        => LET texts == Field(K_texts).items
               out == response.body.embeddings
           IN /\ out.t = "list"
              /\ Len(out.items) = Len(texts)
              /\ \A i \in 1..Len(texts) :
                    out.items[i] = tolist(encode(model, texts[i], FALSE).value)

C3_Witness ==
    /\ request.ep = "batch_embed"
    /\ response.status = 200
    /\ Len(Field(K_texts).items) >= 2
    /\ Field(K_texts).items[1] # Field(K_texts).items[2]

\* C4: a POST /similarity request with `text1` or `text2` missing is answered
\* 400, and only a request with both is answered 200.
C4_MissingEitherIs400 ==
    request.ep = "similarity"
        => /\ (~Supplies(K_text1) \/ ~Supplies(K_text2)) => response.status = 400
           /\ response.status = 200 => (Supplies(K_text1) /\ Supplies(K_text2))

\* The description of the exception the model invocation of the last request
\* raised (<<>> if none): the library failing in a call, the last encode call
\* rejecting its argument, or cosine_similarity rejecting the two arrays.
LastEncodeRejected ==
    calls # <<>> /\ fault = 0 /\ encode(model, calls[Len(calls)], FALSE).raised

CosineRejected ==
    /\ request.ep = "similarity"
    /\ Len(calls) = 2
    /\ fault = 0
    /\ ~LastEncodeRejected
    /\ cosine_similarity(encode(model, calls[1], FALSE).value,
                         encode(model, calls[2], FALSE).value).raised

ModelRaised ==
    CASE fault # 0 -> LibFault
      [] LastEncodeRejected -> LibBadInput
      [] CosineRejected -> CosineDimError
      [] OTHER -> <<>>

\* C5: when the encode call or the similarity computation raises, the request
\* is answered 500 with {error: message}, and the message contains the
\* exception's description.
C5_ModelFailureIs500 ==
    (IsPost /\ ModelRaised # <<>>)
        => /\ response.status = 500
           /\ IsError(response)
           /\ IsSubstring(ModelRaised, response.body.error)

C5_Witness ==
    /\ request.ep = "similarity"
    /\ fault = 2
    /\ response.status = 500
    /\ Len(calls) = 2

\* C6: a POST request with an undecodable body or a wrong content type is
\* answered 400, and 500 is answered only for a request on which the model
\* was called.
C6_OnlyModelFailuresAre500 ==
    IsPost
        => /\ response.status \in {200, 400, 500}
           /\ request.body.raw # "json" => response.status = 400
           /\ response.status = 500 => calls # <<>>

\* C7: GET /health answers 200 with the fixed payload, whatever was answered
\* before.
C7_HealthIsFixed ==
    request.ep = "health"
        => response = [status |-> 200,
                       body |-> [status |-> "healthy", model |-> "all-MiniLM-L6-v2"]]

C7_Witness ==
    /\ request.ep = "health"
    /\ memo.response.status = 500

Validated ==
    CASE request.ep = "embed" -> Supplies(K_text)
      [] request.ep = "batch_embed" ->
            Supplies(K_texts) /\ Field(K_texts).t = "list"
      [] request.ep = "similarity" -> Supplies(K_text1) /\ Supplies(K_text2)
      [] OTHER -> FALSE

\* C10: the model is called only after validation passed (never for a 400),
\* at most once by embed and batch_embed, at most twice by similarity: text1
\* first, and text2 only if encoding text1 did not raise.
C10_ValidationBeforeEncode ==
    /\ response.status = 400 => calls = <<>>
    /\ calls # <<>> => Validated
    /\ request.ep \in {"embed", "batch_embed"} => Len(calls) <= 1
    /\ request.ep = "similarity"
        => /\ Len(calls) <= 2
           /\ Len(calls) >= 1 => calls[1] = Field(K_text1)
           /\ Len(calls) = 2 => calls[2] = Field(K_text2)
           /\ (Len(calls) >= 1
                /\ (fault = 1 \/ encode(model, calls[1], FALSE).raised))
                => Len(calls) = 1

C10_Witness ==
    /\ request.ep = "similarity"
    /\ fault = 1
    /\ Len(calls) = 1
    /\ response.status = 500

====
